---- MODULE Spec2Model ----
(***************************************************************************)
(* FEC redundancy schedulers of quiche/src/fec: the dispatcher enum        *)
(* (fec_scheduler.rs) and its four state machines, with the packet         *)
(* emission loop, the clock and the connection counters as environment.    *)
(*                                                                         *)
(* Instants and Durations are integers in microseconds.  Option<T> is the  *)
(* empty sequence (None) or a one-element sequence (Some(x)).  An          *)
(* environment variable is an Option of an integer; a negative integer     *)
(* stands for a string that does not parse as an unsigned number.  An f64  *)
(* loss statistic is an integer number of tenths.  All byte and symbol     *)
(* counts stay far below 2^31, so usize / u64 arithmetic never wraps on    *)
(* the values the model reaches.                                           *)
(***************************************************************************)
EXTENDS Integers, Sequences, FiniteSets, TLC

\* ------------------------------------------------------------------------
\* Bounds of the model
\* ------------------------------------------------------------------------
\* the clock takes the values 0, TickUs, ..., MaxTicks * TickUs
MaxTicks == 2
\* the connection sends at most MaxPackets stream packets
MaxPackets == 2
\* at most MaxRepairInFlight repair symbols are emitted and not yet acked or lost
MaxRepairInFlight == 2
\* cap of n_source_symbols_sent_since_last_repair
MaxSourceSymbols == 3

\* ------------------------------------------------------------------------
\* Units of the environment
\* ------------------------------------------------------------------------
TickUs == 1000
HeaderBytesPerPacket == 40
CWND == 120000
MicrosPerSecond == 1000000

\* ------------------------------------------------------------------------
\* Option, saturating arithmetic, env::var(..).parse().unwrap_or(..)
\* ------------------------------------------------------------------------
None == << >>

Some(x) == << x >>

IsNone(o) == o = << >>

IsSome(o) == o # << >>

Unwrap(o) == o[1]

Max(a, b) == IF a >= b THEN a ELSE b

Min(a, b) == IF a <= b THEN a ELSE b

SaturatingSub(a, b) == IF a > b THEN a - b ELSE 0

EnvParseOr(v, default) ==
    IF IsNone(v) THEN default
    ELSE IF Unwrap(v) < 0 THEN default
    ELSE Unwrap(v)

\* (packets_lost_per_round_trip + 2.0 * var.ceil()) as usize, on tenths
LossSymbols(path) ==
    LET mean10 == Unwrap(path.packets_lost_per_round_trip)
        var10  == path.var_packets_lost_per_round_trip
        ceil   == (var10 + 9) \div 10
    IN  (mean10 + 2 * 10 * ceil) \div 10

RECURSIVE SumBif(_, _)
\* the loop "for (_, path) in conn.paths.iter()" over the first n paths
SumBif(paths, n) ==
    IF n = 0 THEN 0
    ELSE SumBif(paths, n - 1) +
         (IF ~paths[n].fec_only
          THEN SaturatingSub(paths[n].cwnd, paths[n].cwnd_available)
          ELSE 0)

TotalBif(conn) == SumBif(conn.paths, Len(conn.paths))

\* ------------------------------------------------------------------------
\* Program constants
\* ------------------------------------------------------------------------
DEFAULT_BURST_SIZE == 15000
DEFAULT_MAX_JITTER_US == 0
DEFAULT_FRAC_DENOMINATOR_TO_PROTECT == 2
DEFAULT_MINIMUM_ROOM_IN_CWIN == 5000
DEFAULT_COOLDOWN_US == 0
DEFAULT_BANDWIDTH_PROBING_BPS == 0
DEFAULT_DELAYING_DURATION == 2000
REPAIR_TO_SEND_WITH_NO_LOSS_INFO == 5
SmallBurstLimit == 15000

\* ------------------------------------------------------------------------
\* BurstsFECScheduler (burst_protecting_fec_scheduler.rs)
\* ------------------------------------------------------------------------
BurstsNew ==
    [ n_repair_in_flight |-> 0,
      n_packets_sent_when_nothing_to_send |-> 0,
      n_sent_stream_bytes_sent_when_nothing_to_send |-> 0,
      n_sent_stream_bytes_when_last_repair |-> 0,
      current_burst_size |-> 0,
      earliest_unprotected_source_symbol_sent_time |-> None,
      n_source_symbols_sent_since_last_repair |-> 0,
      state_sending_repair |-> None,
      next_timeout |-> None ]

\* lines 71-77: a round whose ceiling is reached is cleared
BurstsClearFinished(state, symbol_size) ==
    IF IsSome(state) /\
       Unwrap(state).repair_symbols_sent * symbol_size >= Unwrap(state).repair_bytes_to_send
    THEN None
    ELSE state

\* faulty variant of BurstsOpenOrExpire: pending data closes the round
BurstsOpenOrExpireWhenBusy(state, nothing_to_send, sent_enough_protected_data, t, max_jitter, current_sent_stream_bytes, current_burst_size, rtt) ==
    IF IsNone(state) /\ nothing_to_send /\ sent_enough_protected_data
    THEN Some([ start_time |-> t,
                when |-> t + max_jitter,
                burst_start_offset |-> current_sent_stream_bytes,
                burst_size |-> current_burst_size,
                repair_bytes_to_send |-> 0,
                repair_symbols_sent |-> 0 ])
    ELSE IF IsSome(state) /\ nothing_to_send
         THEN IF t - Unwrap(state).start_time >= rtt THEN None ELSE state
         ELSE None

\* faulty variant of BurstsOpenOrExpire: a round exactly one rtt old is kept
BurstsOpenOrExpireLate(state, nothing_to_send, sent_enough_protected_data, t, max_jitter, current_sent_stream_bytes, current_burst_size, rtt) ==
    IF IsNone(state) /\ nothing_to_send /\ sent_enough_protected_data
    THEN Some([ start_time |-> t,
                when |-> t + max_jitter,
                burst_start_offset |-> current_sent_stream_bytes,
                burst_size |-> current_burst_size,
                repair_bytes_to_send |-> 0,
                repair_symbols_sent |-> 0 ])
    ELSE IF IsSome(state)
         THEN IF t - Unwrap(state).start_time > rtt THEN None ELSE state
         ELSE None

\* lines 91-111: open a new round, or expire the present one after one rtt
BurstsOpenOrExpire(state, nothing_to_send, sent_enough_protected_data, t, max_jitter, current_sent_stream_bytes, current_burst_size, rtt) ==
    IF IsNone(state) /\ nothing_to_send /\ sent_enough_protected_data
    THEN Some([ start_time |-> t,
                when |-> t + max_jitter,
                burst_start_offset |-> current_sent_stream_bytes,
                burst_size |-> current_burst_size,
                repair_bytes_to_send |-> 0,
                repair_symbols_sent |-> 0 ])
    ELSE IF IsSome(state)
         THEN IF t - Unwrap(state).start_time >= rtt THEN None ELSE state
         ELSE None

\* faulty variant of BurstsMaxRepairData: the loss statistics clamp small bursts too
BurstsMaxRepairDataClampedAlways(self, path, symbol_size, frac_denominator) ==
    LET bif == SaturatingSub(path.cwnd, path.cwnd_available)
        bytes_to_protect ==
            Min(bif, self.n_source_symbols_sent_since_last_repair * symbol_size)
        candidate ==
            IF bytes_to_protect < SmallBurstLimit
            THEN (bytes_to_protect * 3) \div 5
            ELSE bytes_to_protect \div frac_denominator
    IN  IF IsNone(path.packets_lost_per_round_trip)
        THEN candidate
        ELSE Min(LossSymbols(path) * symbol_size, candidate)

\* lines 116-131: the candidate ceiling of the round
BurstsMaxRepairData(self, path, symbol_size, frac_denominator) ==
    LET bif == SaturatingSub(path.cwnd, path.cwnd_available)
        bytes_to_protect ==
            Min(bif, self.n_source_symbols_sent_since_last_repair * symbol_size)
        amount_to_protect_when_no_loss_info == bytes_to_protect \div frac_denominator
    IN  IF bytes_to_protect < SmallBurstLimit
        THEN (bytes_to_protect * 3) \div 5
        ELSE IF IsNone(path.packets_lost_per_round_trip)
             THEN amount_to_protect_when_no_loss_info
             ELSE Min(LossSymbols(path) * symbol_size,
                      amount_to_protect_when_no_loss_info)

\* faulty variant of BurstsGrowCeiling: the candidate replaces the ceiling
BurstsReplaceCeiling(existing, max_repair_data) == max_repair_data

\* line 132: state.repair_bytes_to_send = state.repair_bytes_to_send.max(..)
BurstsGrowCeiling(existing, max_repair_data) == Max(existing, max_repair_data)

\* faulty variant of BurstsShouldSend: emits until one symbol over the ceiling
BurstsShouldSendOneMore(state, t, symbol_size) ==
    IF IsSome(state)
    THEN t >= Unwrap(state).when /\
         Unwrap(state).repair_symbols_sent * symbol_size <
             Unwrap(state).repair_bytes_to_send + symbol_size
    ELSE FALSE

\* faulty variant of BurstsShouldSend: emits whatever the ceiling of the round
BurstsShouldSendIgnoringCeiling(state, t, symbol_size) ==
    IF IsSome(state) THEN t >= Unwrap(state).when ELSE FALSE

\* faulty variant of BurstsShouldSend: emits up to and including the ceiling
BurstsShouldSendAtCeiling(state, t, symbol_size) ==
    IF IsSome(state)
    THEN t >= Unwrap(state).when /\
         Unwrap(state).repair_symbols_sent * symbol_size <= Unwrap(state).repair_bytes_to_send
    ELSE FALSE

\* lines 142-147: the decision
BurstsShouldSend(state, t, symbol_size) ==
    IF IsSome(state)
    THEN t >= Unwrap(state).when /\
         Unwrap(state).repair_symbols_sent * symbol_size < Unwrap(state).repair_bytes_to_send
    ELSE FALSE

\* faulty variant of BurstsNextTimeout: round.when is stored even when reached
BurstsNextTimeoutAlwaysWhen(old_timeout, should_send, state, t) ==
    IF should_send THEN old_timeout
    ELSE IF IsSome(state) THEN Some(Unwrap(state).when) ELSE None

\* lines 148-158: next_timeout after the decision
BurstsNextTimeout(old_timeout, should_send, state, t) ==
    IF should_send THEN old_timeout
    ELSE IF IsSome(state)
         THEN IF t < Unwrap(state).when THEN Some(Unwrap(state).when) ELSE None
         ELSE None

\* faulty variant of BurstsIdlePoint: the idle point is never recorded
BurstsIdlePointStale(recorded, nothing_to_send, tx_data) == recorded

\* lines 135-139: the stream bytes sent so far are recorded at an idle point
BurstsIdlePoint(recorded, nothing_to_send, tx_data) ==
    IF nothing_to_send THEN tx_data ELSE recorded

\* BurstsFECScheduler::should_send_repair: the new state and the decision
\* faulty variant of BurstsSentEnough: any burst counts
BurstsSentEnoughAlways(current_burst_size, threshold_burst_size) == TRUE

\* faulty variant of BurstsSentEnough: a burst of exactly the threshold counts
BurstsSentEnoughAtThreshold(current_burst_size, threshold_burst_size) ==
    current_burst_size >= threshold_burst_size

\* line 69: the burst since the last idle point is larger than the threshold
BurstsSentEnough(current_burst_size, threshold_burst_size) ==
    current_burst_size > threshold_burst_size

BurstsShouldSendRepair(self, conn, path, symbol_size, t, env) ==
    LET threshold_burst_size ==
            EnvParseOr(env.FEC_BURST_SIZE_BYTES, DEFAULT_BURST_SIZE)
        max_jitter == EnvParseOr(env.FEC_MAX_JITTER_US, DEFAULT_MAX_JITTER_US)
        frac_denominator ==
            EnvParseOr(env.FRAC_DENOMINATOR_TO_PROTECT, DEFAULT_FRAC_DENOMINATOR_TO_PROTECT)
        dgrams_to_emit == IsSome(conn.dgram_max_writable_len)
        stream_to_emit == conn.has_flushable
        nothing_to_send == ~dgrams_to_emit /\ ~stream_to_emit
        current_sent_stream_bytes == conn.tx_data
        current_burst_size ==
            current_sent_stream_bytes - self.n_sent_stream_bytes_sent_when_nothing_to_send
        sent_enough_protected_data ==
            BurstsSentEnough(current_burst_size, threshold_burst_size)
        cleared == BurstsClearFinished(self.state_sending_repair, symbol_size)
        opened == BurstsOpenOrExpire(cleared, nothing_to_send, sent_enough_protected_data,
                                     t, max_jitter, current_sent_stream_bytes,
                                     current_burst_size, path.rtt)
        sized ==
            IF IsSome(opened)
            THEN Some([ Unwrap(opened) EXCEPT !.repair_bytes_to_send =
                          BurstsGrowCeiling(@, BurstsMaxRepairData(self, path, symbol_size,
                                                                  frac_denominator)) ])
            ELSE None
        should_send == BurstsShouldSend(sized, t, symbol_size)
    IN  [ self |->
            [ self EXCEPT
                !.current_burst_size =
                    IF nothing_to_send THEN 0 ELSE current_burst_size,
                !.n_packets_sent_when_nothing_to_send =
                    IF nothing_to_send THEN conn.sent_count ELSE @,
                !.n_sent_stream_bytes_sent_when_nothing_to_send =
                    BurstsIdlePoint(@, nothing_to_send, conn.tx_data),
                !.state_sending_repair = sized,
                !.n_sent_stream_bytes_when_last_repair =
                    IF should_send THEN current_sent_stream_bytes ELSE @,
                !.next_timeout = BurstsNextTimeout(@, should_send, sized, t) ],
          ret |-> should_send ]

\* BurstsFECScheduler::sent_repair_symbol
BurstsSentRepairSymbol(self) ==
    [ self EXCEPT
        !.n_repair_in_flight = @ + 1,
        !.earliest_unprotected_source_symbol_sent_time = None,
        !.n_source_symbols_sent_since_last_repair = 0,
        !.state_sending_repair =
            IF IsSome(@)
            THEN Some([ Unwrap(@) EXCEPT !.repair_symbols_sent = @ + 1 ])
            ELSE None ]

\* BurstsFECScheduler::acked_repair_symbol
BurstsAckedRepairSymbol(self) ==
    [ self EXCEPT !.n_repair_in_flight = @ - 1 ]

\* faulty variant of BurstsLostRepairSymbol: a loss does not release the symbol
BurstsLostRepairSymbolKeepsInFlight(self) == self

\* BurstsFECScheduler::lost_repair_symbol
BurstsLostRepairSymbol(self) == BurstsAckedRepairSymbol(self)

\* BurstsFECScheduler::sent_source_symbol; encoder is the encoder view:
\* first_metadata() and get_sent_time(first_md)
BurstsSentSourceSymbol(self, encoder, t, env) ==
    LET threshold_burst_size ==
            EnvParseOr(env.FEC_BURST_SIZE_BYTES, DEFAULT_BURST_SIZE)
        max_jitter == EnvParseOr(env.FEC_MAX_JITTER_US, DEFAULT_MAX_JITTER_US)
        stamp == self.earliest_unprotected_source_symbol_sent_time
        new_stamp ==
            IF IsNone(stamp)
            THEN IF self.current_burst_size > threshold_burst_size THEN Some(t) ELSE None
            ELSE IF IsSome(encoder.first_metadata)
                 THEN IF t > Unwrap(stamp) + max_jitter /\
                         self.current_burst_size > threshold_burst_size
                      THEN Some(t)
                      ELSE IF IsSome(encoder.first_sent_time) /\
                              Unwrap(encoder.first_sent_time) > Unwrap(stamp)
                           THEN encoder.first_sent_time
                           ELSE stamp
                 ELSE stamp
    IN  [ self EXCEPT
            !.earliest_unprotected_source_symbol_sent_time = new_stamp,
            !.n_source_symbols_sent_since_last_repair = @ + 1 ]

\* BurstsFECScheduler::timeout
BurstsTimeout(self) == self.next_timeout

\* ------------------------------------------------------------------------
\* BackgroundFECScheduler (background_fec_scheduler.rs)
\* ------------------------------------------------------------------------
BackgroundNew ==
    [ delaying_duration |-> DEFAULT_DELAYING_DURATION,
      n_repair_in_flight |-> 0,
      rs_triggering_time |-> None,
      rs_sent_for_this_round |-> FALSE ]

\* BackgroundFECScheduler::reset_rs_delaying
BackgroundResetRsDelaying(self) ==
    [ self EXCEPT !.rs_triggering_time = None, !.rs_sent_for_this_round = FALSE ]

\* faulty variant of BackgroundMaxRepairData: the protected symbols are not read
BackgroundMaxRepairDataOfBifOnly(conn, path, symbol_size) ==
    LET total_bif == TotalBif(conn)
    IN  IF total_bif < symbol_size THEN 0
        ELSE IF total_bif < SmallBurstLimit THEN (total_bif * 3) \div 5
        ELSE IF IsNone(path.packets_lost_per_round_trip)
             THEN Min(REPAIR_TO_SEND_WITH_NO_LOSS_INFO * symbol_size, total_bif \div 4)
             ELSE Min(LossSymbols(path) * symbol_size, total_bif \div 3)

\* faulty variant of BackgroundMaxRepairData: no zero budget below symbol_size
BackgroundMaxRepairDataUnfloored(conn, path, symbol_size) ==
    LET total_bif ==
            Min(conn.fec_encoder.n_protected_symbols * symbol_size, TotalBif(conn))
    IN  IF total_bif < SmallBurstLimit THEN (total_bif * 3) \div 5
        ELSE IF IsNone(path.packets_lost_per_round_trip)
             THEN Min(REPAIR_TO_SEND_WITH_NO_LOSS_INFO * symbol_size, total_bif \div 4)
             ELSE Min(LossSymbols(path) * symbol_size, total_bif \div 3)

\* lines 43-64: the budget of the gating condition
BackgroundMaxRepairData(conn, path, symbol_size) ==
    LET total_bif ==
            Min(conn.fec_encoder.n_protected_symbols * symbol_size, TotalBif(conn))
    IN  IF total_bif < symbol_size THEN 0
        ELSE IF total_bif < SmallBurstLimit THEN (total_bif * 3) \div 5
        ELSE IF IsNone(path.packets_lost_per_round_trip)
             THEN Min(REPAIR_TO_SEND_WITH_NO_LOSS_INFO * symbol_size, total_bif \div 4)
             ELSE Min(LossSymbols(path) * symbol_size, total_bif \div 3)

\* faulty variant of BackgroundGatingFailed: the latch survives a failed gating
BackgroundGatingFailedKeepsLatch(self) == self

\* lines 69-71: the gating condition failed
BackgroundGatingFailed(self) == BackgroundResetRsDelaying(self)

\* faulty variant of BackgroundWaitedEnough: a latched call has waited enough
BackgroundWaitedEnoughAtOnce(self, t) == IsSome(self.rs_triggering_time)

\* line 80: the delay since the latch has elapsed
BackgroundWaitedEnough(self, t) ==
    IsSome(self.rs_triggering_time) /\
    t >= Unwrap(self.rs_triggering_time) + self.delaying_duration

\* BackgroundFECScheduler::should_send_repair
BackgroundShouldSendRepair(self, conn, path, symbol_size, t, env) ==
    LET dgrams_to_emit == IsSome(conn.dgram_max_writable_len)
        stream_to_emit == conn.has_flushable
        delayed ==
            IF IsSome(env.FEC_BACKGROUND_DELAYING_DURATION_US)
            THEN [ self EXCEPT !.delaying_duration =
                     EnvParseOr(env.FEC_BACKGROUND_DELAYING_DURATION_US,
                                DEFAULT_DELAYING_DURATION) ]
            ELSE self
        max_repair_data == BackgroundMaxRepairData(conn, path, symbol_size)
        repair_symbol_required ==
            ~dgrams_to_emit /\ ~stream_to_emit /\
            delayed.n_repair_in_flight * symbol_size < max_repair_data
        latched ==
            IF IsNone(delayed.rs_triggering_time)
            THEN [ delayed EXCEPT !.rs_triggering_time = Some(t),
                                  !.rs_sent_for_this_round = FALSE ]
            ELSE delayed
        waited_enough == BackgroundWaitedEnough(latched, t)
    IN  IF ~repair_symbol_required
        THEN [ self |-> BackgroundGatingFailed(delayed), ret |-> FALSE ]
        ELSE [ self |-> latched, ret |-> repair_symbol_required /\ waited_enough ]

\* BackgroundFECScheduler::sent_repair_symbol
BackgroundSentRepairSymbol(self) ==
    [ self EXCEPT !.n_repair_in_flight = @ + 1, !.rs_sent_for_this_round = TRUE ]

\* BackgroundFECScheduler::acked_repair_symbol
BackgroundAckedRepairSymbol(self) ==
    [ self EXCEPT !.n_repair_in_flight = @ - 1 ]

\* BackgroundFECScheduler::lost_repair_symbol
BackgroundLostRepairSymbol(self) == BackgroundAckedRepairSymbol(self)

\* BackgroundFECScheduler::sent_source_symbol
BackgroundSentSourceSymbol(self) == BackgroundResetRsDelaying(self)

\* faulty variant of BackgroundTimeout: rs_sent_for_this_round is not read
BackgroundTimeoutAfterEmission(self) ==
    IF IsSome(self.rs_triggering_time)
    THEN Some(Unwrap(self.rs_triggering_time) + self.delaying_duration)
    ELSE None

\* BackgroundFECScheduler::timeout
BackgroundTimeout(self) ==
    IF self.rs_sent_for_this_round THEN None
    ELSE IF IsSome(self.rs_triggering_time)
         THEN Some(Unwrap(self.rs_triggering_time) + self.delaying_duration)
         ELSE None

\* ------------------------------------------------------------------------
\* BurstsFECSchedulerWithFECOnly (burst_protecting_fec_scheduler_with_fec_only.rs)
\* ------------------------------------------------------------------------
BurstsFecOnlyNew ==
    [ n_repair_in_flight |-> 0,
      n_bytes_sent_when_nothing_to_send |-> 0,
      n_sent_bytes_when_last_repair |-> 0,
      first_source_symbol_in_burst_sent_time |-> None,
      state_sending_repair |-> None ]

\* lines 58-81: expire the present round, or open a new one
BurstsFecOnlyOpenOrExpire(self, conn, path, t, env) ==
    LET burst_size == EnvParseOr(env.FEC_BURST_SIZE_BYTES, DEFAULT_BURST_SIZE)
        fec_cooldown == EnvParseOr(env.FEC_COOLDOWN_US, DEFAULT_COOLDOWN_US)
        frac_denominator ==
            EnvParseOr(env.FRAC_DENOMINATOR_TO_PROTECT, DEFAULT_FRAC_DENOMINATOR_TO_PROTECT)
        total_bif == TotalBif(conn)
        current_sent_bytes == conn.sent_bytes
        sent_enough_protected_data ==
            current_sent_bytes - self.n_bytes_sent_when_nothing_to_send > burst_size
        stamp == self.first_source_symbol_in_burst_sent_time
        bytes_to_protect ==
            Min(total_bif, current_sent_bytes - self.n_sent_bytes_when_last_repair)
        max_repair_data ==
            IF bytes_to_protect < SmallBurstLimit
            THEN (bytes_to_protect * 3) \div 5
            ELSE bytes_to_protect \div frac_denominator
        state == self.state_sending_repair
    IN  IF IsSome(state)
        THEN IF t - Unwrap(state).start_time > path.rtt THEN None ELSE state
        ELSE IF sent_enough_protected_data /\
                (IsNone(stamp) \/ t > Unwrap(stamp) + fec_cooldown)
             THEN Some([ start_time |-> t, max_sending_repair_bytes |-> max_repair_data ])
             ELSE None

\* BurstsFECSchedulerWithFECOnly::should_send_repair
BurstsFecOnlyShouldSendRepair(self, conn, path, symbol_size, t, env) ==
    IF ~path.fec_only
    THEN [ self |-> self, ret |-> FALSE ]
    ELSE
    LET dgrams_to_emit == IsSome(conn.dgram_max_writable_len)
        stream_to_emit == conn.has_flushable
        nothing_to_send == ~dgrams_to_emit /\ ~stream_to_emit
        state == BurstsFecOnlyOpenOrExpire(self, conn, path, t, env)
        should_send ==
            IF IsSome(state)
            THEN self.n_repair_in_flight * symbol_size < Unwrap(state).max_sending_repair_bytes
            ELSE FALSE
    IN  [ self |->
            [ self EXCEPT
                !.state_sending_repair = state,
                !.n_bytes_sent_when_nothing_to_send =
                    IF nothing_to_send THEN conn.sent_bytes ELSE @,
                !.n_sent_bytes_when_last_repair =
                    IF should_send THEN conn.sent_bytes ELSE @ ],
          ret |-> should_send ]

\* BurstsFECSchedulerWithFECOnly::sent_repair_symbol
BurstsFecOnlySentRepairSymbol(self) ==
    [ self EXCEPT !.n_repair_in_flight = @ + 1,
                  !.first_source_symbol_in_burst_sent_time = None ]

\* BurstsFECSchedulerWithFECOnly::acked_repair_symbol
BurstsFecOnlyAckedRepairSymbol(self) ==
    [ self EXCEPT !.n_repair_in_flight = @ - 1 ]

\* BurstsFECSchedulerWithFECOnly::lost_repair_symbol
BurstsFecOnlyLostRepairSymbol(self) == BurstsFecOnlyAckedRepairSymbol(self)

\* BurstsFECSchedulerWithFECOnly::sent_source_symbol
BurstsFecOnlySentSourceSymbol(self, t) ==
    IF IsNone(self.first_source_symbol_in_burst_sent_time)
    THEN [ self EXCEPT !.first_source_symbol_in_burst_sent_time = Some(t) ]
    ELSE self

\* ------------------------------------------------------------------------
\* CooldownFECSchedulerWithFECOnly (cooldown_fec_scheduler_with_fec_only.rs)
\* ------------------------------------------------------------------------
CooldownNew ==
    [ n_repair_in_flight |-> 0,
      n_packets_sent_when_nothing_to_send |-> 0,
      n_bytes_sent_when_nothing_to_send |-> 0,
      first_source_symbol_in_burst_sent_time |-> None,
      state_sending_repair |-> None ]

\* faulty variant of CooldownShouldProbe: the scheduler never probes
CooldownShouldProbeNever(conn, path, env) == FALSE

\* line 70: 8.0 * total_bif / rtt.as_secs_f64() < bandwidth_probing_bps.
\* The quotient is exact on the rtt values of the model, which divide one second.
CooldownShouldProbe(conn, path, env) ==
    LET bandwidth_probing_bps ==
            EnvParseOr(env.BANDWIDTH_PROBING_BPS, DEFAULT_BANDWIDTH_PROBING_BPS)
    IN  path.app_limited /\
        8 * TotalBif(conn) * (MicrosPerSecond \div path.rtt) < bandwidth_probing_bps

\* lines 74-79: the budget of the final gate
CooldownMaxRepairData(conn, env) ==
    LET frac_denominator ==
            EnvParseOr(env.FRAC_DENOMINATOR_TO_PROTECT, DEFAULT_FRAC_DENOMINATOR_TO_PROTECT)
        bytes_to_protect == TotalBif(conn)
    IN  IF bytes_to_protect < SmallBurstLimit
        THEN (bytes_to_protect * 3) \div 5
        ELSE bytes_to_protect \div frac_denominator

\* faulty variant of CooldownOperatesOn: every path is served
CooldownOperatesOnAnyPath(path) == TRUE

\* lines 32-34: only a fec_only path is served
CooldownOperatesOn(path) == path.fec_only

\* CooldownFECSchedulerWithFECOnly::should_send_repair
CooldownShouldSendRepair(self, conn, path, symbol_size, t, env) ==
    IF ~CooldownOperatesOn(path)
    THEN [ self |-> self, ret |-> FALSE ]
    ELSE
    LET flushed ==
            IF IsSome(self.state_sending_repair) /\
               conn.fec_encoder.first_metadata #
                   Unwrap(self.state_sending_repair).first_protected_metadata_for_epoch
            THEN None
            ELSE self.state_sending_repair
        burst_size == EnvParseOr(env.FEC_BURST_SIZE_BYTES, DEFAULT_BURST_SIZE)
        fec_cooldown == EnvParseOr(env.FEC_COOLDOWN_US, DEFAULT_COOLDOWN_US)
        minimum_room_in_cwin ==
            EnvParseOr(env.MINIMUM_ROOM_IN_CWIN, DEFAULT_MINIMUM_ROOM_IN_CWIN)
        dgrams_to_emit == IsSome(conn.dgram_max_writable_len)
        stream_to_emit == conn.has_flushable
        cwin_available == path.cwnd_available
        enough_room_in_cwin == cwin_available > minimum_room_in_cwin
        nothing_to_send == ~dgrams_to_emit /\ ~stream_to_emit
        sent_enough_protected_data ==
            conn.fec_encoder.n_protected_symbols * symbol_size > burst_size
        should_probe == CooldownShouldProbe(conn, path, env)
        stamp == self.first_source_symbol_in_burst_sent_time
        cooldown_ok == IsNone(stamp) \/ t > Unwrap(stamp) + fec_cooldown
        max_repair_data == CooldownMaxRepairData(conn, env)
        armed ==
            IF IsNone(flushed) /\ nothing_to_send /\ sent_enough_protected_data /\
               enough_room_in_cwin /\ cooldown_ok
            THEN Some([ first_protected_metadata_for_epoch |->
                          conn.fec_encoder.first_metadata ])
            ELSE flushed
        should_send ==
            should_probe \/
            (enough_room_in_cwin /\ self.n_repair_in_flight * symbol_size < max_repair_data)
    IN  [ self |->
            [ self EXCEPT
                !.state_sending_repair = armed,
                !.n_packets_sent_when_nothing_to_send =
                    IF nothing_to_send THEN conn.sent_count ELSE @,
                !.n_bytes_sent_when_nothing_to_send =
                    IF nothing_to_send THEN conn.sent_bytes ELSE @ ],
          ret |-> should_send ]

\* CooldownFECSchedulerWithFECOnly::sent_repair_symbol
CooldownSentRepairSymbol(self) ==
    [ self EXCEPT !.n_repair_in_flight = @ + 1,
                  !.first_source_symbol_in_burst_sent_time = None ]

\* CooldownFECSchedulerWithFECOnly::acked_repair_symbol
CooldownAckedRepairSymbol(self) ==
    [ self EXCEPT !.n_repair_in_flight = @ - 1 ]

\* CooldownFECSchedulerWithFECOnly::lost_repair_symbol
CooldownLostRepairSymbol(self) == CooldownAckedRepairSymbol(self)

\* CooldownFECSchedulerWithFECOnly::sent_source_symbol
CooldownSentSourceSymbol(self, t) ==
    IF IsNone(self.first_source_symbol_in_burst_sent_time)
    THEN [ self EXCEPT !.first_source_symbol_in_burst_sent_time = Some(t) ]
    ELSE self

\* ------------------------------------------------------------------------
\* FECScheduler: the dispatcher enum (fec_scheduler.rs)
\* ------------------------------------------------------------------------
Algorithms ==
    { "NoRedundancy", "BackgroundOnly", "BurstsOnly",
      "BurstsOnlyOnFECOnlyPath", "CooldownOnFECOnlyPath" }

\* new_fec_scheduler
NewFecScheduler(a) ==
    CASE a = "NoRedundancy" -> [ kind |-> "NoRedundancy" ]
      [] a = "BackgroundOnly" -> [ kind |-> "BackgroundOnly", st |-> BackgroundNew ]
      [] a = "BurstsOnly" -> [ kind |-> "Bursty", st |-> BurstsNew ]
      [] a = "BurstsOnlyOnFECOnlyPath" ->
            [ kind |-> "BurstyOnFECOnly", st |-> BurstsFecOnlyNew ]
      [] a = "CooldownOnFECOnlyPath" ->
            [ kind |-> "CooldownOnFECOnly", st |-> CooldownNew ]

Wrap(sched, r) == [ self |-> [ sched EXCEPT !.st = r.self ], ret |-> r.ret ]

\* faulty variant of NoRedundancyShouldSendRepair: the disabled scheduler accepts
NoRedundancyShouldSendRepairAccepts == TRUE

\* the NoRedundancy arm of FECScheduler::should_send_repair
NoRedundancyShouldSendRepair == FALSE

\* FECScheduler::should_send_repair
FecShouldSendRepair(sched, conn, path, symbol_size, t, env) ==
    CASE sched.kind = "BackgroundOnly" ->
            Wrap(sched, BackgroundShouldSendRepair(sched.st, conn, path, symbol_size, t, env))
      [] sched.kind = "Bursty" ->
            Wrap(sched, BurstsShouldSendRepair(sched.st, conn, path, symbol_size, t, env))
      [] sched.kind = "BurstyOnFECOnly" ->
            Wrap(sched, BurstsFecOnlyShouldSendRepair(sched.st, conn, path, symbol_size, t, env))
      [] sched.kind = "CooldownOnFECOnly" ->
            Wrap(sched, CooldownShouldSendRepair(sched.st, conn, path, symbol_size, t, env))
      [] sched.kind = "NoRedundancy" ->
            [ self |-> sched, ret |-> NoRedundancyShouldSendRepair ]

\* FECScheduler::sent_repair_symbol
FecSentRepairSymbol(sched) ==
    CASE sched.kind = "BackgroundOnly" ->
            [ sched EXCEPT !.st = BackgroundSentRepairSymbol(@) ]
      [] sched.kind = "Bursty" -> [ sched EXCEPT !.st = BurstsSentRepairSymbol(@) ]
      [] sched.kind = "BurstyOnFECOnly" ->
            [ sched EXCEPT !.st = BurstsFecOnlySentRepairSymbol(@) ]
      [] sched.kind = "CooldownOnFECOnly" ->
            [ sched EXCEPT !.st = CooldownSentRepairSymbol(@) ]
      [] sched.kind = "NoRedundancy" -> sched

\* FECScheduler::acked_repair_symbol
FecAckedRepairSymbol(sched) ==
    CASE sched.kind = "BackgroundOnly" ->
            [ sched EXCEPT !.st = BackgroundAckedRepairSymbol(@) ]
      [] sched.kind = "Bursty" -> [ sched EXCEPT !.st = BurstsAckedRepairSymbol(@) ]
      [] sched.kind = "BurstyOnFECOnly" ->
            [ sched EXCEPT !.st = BurstsFecOnlyAckedRepairSymbol(@) ]
      [] sched.kind = "CooldownOnFECOnly" ->
            [ sched EXCEPT !.st = CooldownAckedRepairSymbol(@) ]
      [] sched.kind = "NoRedundancy" -> sched

\* FECScheduler::sent_source_symbol
FecSentSourceSymbol(sched, encoder, t, env) ==
    CASE sched.kind = "BackgroundOnly" ->
            [ sched EXCEPT !.st = BackgroundSentSourceSymbol(@) ]
      [] sched.kind = "Bursty" ->
            [ sched EXCEPT !.st = BurstsSentSourceSymbol(@, encoder, t, env) ]
      [] sched.kind = "BurstyOnFECOnly" ->
            [ sched EXCEPT !.st = BurstsFecOnlySentSourceSymbol(@, t) ]
      [] sched.kind = "CooldownOnFECOnly" ->
            [ sched EXCEPT !.st = CooldownSentSourceSymbol(@, t) ]
      [] sched.kind = "NoRedundancy" -> sched

\* FECScheduler::lost_repair_symbol
FecLostRepairSymbol(sched) ==
    CASE sched.kind = "BackgroundOnly" ->
            [ sched EXCEPT !.st = BackgroundLostRepairSymbol(@) ]
      [] sched.kind = "Bursty" -> [ sched EXCEPT !.st = BurstsLostRepairSymbol(@) ]
      [] sched.kind = "BurstyOnFECOnly" ->
            [ sched EXCEPT !.st = BurstsFecOnlyLostRepairSymbol(@) ]
      [] sched.kind = "CooldownOnFECOnly" ->
            [ sched EXCEPT !.st = CooldownLostRepairSymbol(@) ]
      [] sched.kind = "NoRedundancy" -> sched

\* ------------------------------------------------------------------------
\* fec_scheduler.rs: FECSchedulerAlgorithm and its FromStr
\* ------------------------------------------------------------------------
\* at most MaxParses calls of from_str are recorded
MaxParses == 2

Ok(a) == [ ok |-> TRUE, alg |-> a ]

Err(e) == [ ok |-> FALSE, err |-> e ]

\* lines 24-33: the discriminant of each variant (repr(C))
AlgorithmValue(a) ==
    CASE a = "NoRedundancy" -> 0
      [] a = "BackgroundOnly" -> 1
      [] a = "BurstsOnly" -> 2
      [] a = "BurstsOnlyOnFECOnlyPath" -> 3
      [] a = "CooldownOnFECOnlyPath" -> 4

\* faulty variant of FromStr: the name is matched whatever its case
FromStrIgnoringCase(name) ==
    CASE name \in { "noredundancy", "NoRedundancy" } -> Ok("NoRedundancy")
      [] name \in { "background", "Background" } -> Ok("BackgroundOnly")
      [] name \in { "bursts", "BURSTS" } -> Ok("BurstsOnly")
      [] name \in { "bursts_feconly", "Bursts_FECOnly" } -> Ok("BurstsOnlyOnFECOnlyPath")
      [] name \in { "cooldown_feconly", "COOLDOWN_FECONLY" } -> Ok("CooldownOnFECOnlyPath")
      [] OTHER -> Err("FECScheduler")

\* lines 42-52: from_str, a match on the whole string
FromStr(name) ==
    CASE name = "noredundancy" -> Ok("NoRedundancy")
      [] name = "background" -> Ok("BackgroundOnly")
      [] name = "bursts" -> Ok("BurstsOnly")
      [] name = "bursts_feconly" -> Ok("BurstsOnlyOnFECOnlyPath")
      [] name = "cooldown_feconly" -> Ok("CooldownOnFECOnlyPath")
      [] OTHER -> Err("FECScheduler")

\* the names from_str is given: the five of the match, the same in another
\* case, with a blank or a suffix added, and a few others
Names ==
    LET listed == { "noredundancy", "background", "bursts", "bursts_feconly",
                    "cooldown_feconly" }
    IN  listed
        \cup { "NoRedundancy", "Background", "BURSTS", "Bursts_FECOnly", "COOLDOWN_FECONLY" }
        \cup { n \o " " : n \in listed }
        \cup { " " \o n : n \in listed }
        \cup { n \o "_feconly" : n \in listed }
        \cup { "", "cooldown", "feconly", "reno", "0", "2" }

\* ------------------------------------------------------------------------
\* recovery/disabled_cc.rs and recovery/congestion/disabled_cc.rs
\* ------------------------------------------------------------------------
\* at most MaxCcPackets packets are handed to on_packet_sent
MaxCcPackets == 3

\* std::usize::MAX, on a machine word of 30 bits
USIZE_MAX == 1073741823

\* the window Recovery / Congestion is built with, which on_init leaves alone
INITIAL_CONGESTION_WINDOW == 12000

WrappingAdd(a, b) == (a + b) % (USIZE_MAX + 1)

\* the two controllers named DISABLED_CC
CcImpls == { "recovery", "congestion" }

DisabledCcNew(impl) ==
    [ impl |-> impl,
      congestion_window |-> INITIAL_CONGESTION_WINDOW,
      ssthresh |-> USIZE_MAX,
      bytes_in_flight |-> 0,
      bytes_acked_sl |-> 0,
      bytes_acked_ca |-> 0,
      app_limited |-> FALSE,
      n_sent |-> 0,
      n_acked |-> 0,
      last_op |-> "on_init" ]

\* recovery/disabled_cc.rs lines 57-59
DisabledCcOnPacketSent(r, sent_bytes) ==
    [ r EXCEPT !.bytes_in_flight = WrappingAdd(@, sent_bytes) ]

\* recovery/disabled_cc.rs lines 69-102; packet.in_recovery is the value of
\* r.in_congestion_recovery(packet.time_sent), packet.css_ends that of
\* r.hystart.on_packet_acked(..)
DisabledCcOnPacketAcked(r, packet) ==
    LET r1 == [ r EXCEPT !.bytes_in_flight = SaturatingSub(@, packet.size) ]
    IN  IF packet.in_recovery THEN r1
        ELSE IF r1.app_limited THEN r1
        ELSE IF r1.congestion_window < r1.ssthresh
        THEN LET r2 == [ r1 EXCEPT !.bytes_acked_sl = WrappingAdd(@, packet.size),
                                   !.congestion_window = USIZE_MAX - 1 ]
             IN  IF packet.css_ends
                 THEN [ r2 EXCEPT !.ssthresh = r2.congestion_window ]
                 ELSE r2
        ELSE LET r2 == [ r1 EXCEPT !.bytes_acked_ca = WrappingAdd(@, packet.size) ]
             IN  IF r2.bytes_acked_ca >= r2.congestion_window
                 THEN [ r2 EXCEPT !.bytes_acked_ca = @ - r2.congestion_window,
                                  !.congestion_window = USIZE_MAX - 1 ]
                 ELSE r2

RECURSIVE DisabledCcOnPacketsAcked(_, _)
\* recovery/disabled_cc.rs lines 61-67
DisabledCcOnPacketsAcked(r, packets) ==
    IF packets = << >> THEN r
    ELSE DisabledCcOnPacketsAcked(DisabledCcOnPacketAcked(r, Head(packets)), Tail(packets))

\* recovery/disabled_cc.rs lines 104-109
DisabledCcCongestionEvent(r) == [ r EXCEPT !.congestion_window = USIZE_MAX - 1 ]

\* recovery/disabled_cc.rs lines 111-113
DisabledCcCollapseCwnd(r) == [ r EXCEPT !.congestion_window = USIZE_MAX - 1 ]

\* recovery/congestion/disabled_cc.rs lines 54-57
CongestionDisabledCcOnPacketSent(r, sent_bytes) == r

\* recovery/congestion/disabled_cc.rs lines 68-72
CongestionDisabledCcOnPacketAcked(r, packet) == r

RECURSIVE CongestionDisabledCcOnPacketsAcked(_, _)
\* recovery/congestion/disabled_cc.rs lines 59-66
CongestionDisabledCcOnPacketsAcked(r, packets) ==
    IF packets = << >> THEN r
    ELSE CongestionDisabledCcOnPacketsAcked(
             CongestionDisabledCcOnPacketAcked(r, Head(packets)), Tail(packets))

\* recovery/congestion/disabled_cc.rs lines 74-79
CongestionDisabledCcCongestionEvent(r) ==
    [ r EXCEPT !.congestion_window = USIZE_MAX - 1 ]

\* the packets an ACK frame may newly acknowledge
AckedPackets ==
    { [ size |-> 1200, in_recovery |-> c, css_ends |-> h ] : c \in BOOLEAN, h \in BOOLEAN }

AckBatches ==
    { << p >> : p \in AckedPackets } \cup { << p, q >> : p \in AckedPackets, q \in AckedPackets }

\* ------------------------------------------------------------------------
\* Inputs: the connection, path and encoder views a call may see
\* ------------------------------------------------------------------------
SymbolSizes == { 5000 }

\* a burst of exactly DEFAULT_BURST_SIZE stream bytes, and one byte more
StreamPayloads == { 15000, 15001 }

RttSet == { 1000, 3000 }

NoLoss == [ mean |-> None, var |-> 0 ]

SomeLoss == [ mean |-> Some(15), var |-> 0 ]

DataPath(avail, rtt, loss) ==
    [ cwnd |-> CWND, cwnd_available |-> avail, rtt |-> rtt,
      app_limited |-> FALSE, fec_only |-> FALSE,
      packets_lost_per_round_trip |-> loss.mean,
      var_packets_lost_per_round_trip |-> loss.var ]

FecPath(avail, rtt, app_limited) ==
    [ cwnd |-> CWND, cwnd_available |-> avail, rtt |-> rtt,
      app_limited |-> app_limited, fec_only |-> TRUE,
      packets_lost_per_round_trip |-> None,
      var_packets_lost_per_round_trip |-> 0 ]

\* bytes in flight of a data path: 0, 2000 or 40000
DataAvail == { CWND, CWND - 2000, CWND - 40000 }

\* nothing pending, a writable datagram, or a flushable stream
Pending ==
    { [ dgram |-> None, flush |-> FALSE ],
      [ dgram |-> Some(1200), flush |-> FALSE ],
      [ dgram |-> None, flush |-> TRUE ] }

NoEncoder == [ n_protected_symbols |-> 0, first_metadata |-> None ]

View(paths, pid, pending, encoder) ==
    [ paths |-> paths, pid |-> pid, pending |-> pending, encoder |-> encoder ]

\* the path has nothing or 40000 bytes in flight; the loss statistics are
\* read only when at least 15000 bytes are to be protected
BurstsViews ==
    { View(<< DataPath(a, r, NoLoss) >>, 1, p, NoEncoder) :
        a \in { CWND, CWND - 40000 }, r \in RttSet, p \in Pending }
    \cup
    { View(<< DataPath(CWND - 40000, r, SomeLoss) >>, 1, p, NoEncoder) :
        r \in RttSet, p \in Pending }

BackgroundViews ==
    LET f == FecPath(CWND - 40000, 1000, FALSE)
        encs == { [ n_protected_symbols |-> n, first_metadata |-> None ] : n \in { 0, 2, 3, 40 } }
    IN  { View(<< DataPath(a, 1000, l) >>, 1, p, e) :
            a \in DataAvail, l \in { NoLoss, SomeLoss }, p \in Pending, e \in encs }
        \cup
        { View(<< DataPath(a, 1000, NoLoss), f >>, i, p, e) :
            a \in DataAvail, i \in { 1, 2 }, p \in Pending, e \in encs }

BurstsFecOnlyViews ==
    { View(<< DataPath(a, 1000, NoLoss), FecPath(CWND, r, FALSE) >>, i, p, NoEncoder) :
        a \in DataAvail, r \in RttSet, i \in { 1, 2 }, p \in Pending }

CooldownViews ==
    LET Enc(n, m) == [ n_protected_symbols |-> n, first_metadata |-> m ]
        encs == { Enc(0, None), Enc(40, Some(1)), Enc(40, Some(2)) }
    IN  { View(<< DataPath(a, 1000, NoLoss), FecPath(fa, 1000, al) >>, 2, p, e) :
            a \in DataAvail, fa \in { 4000, CWND }, al \in BOOLEAN,
            p \in Pending, e \in encs }
        \cup
        { View(<< DataPath(CWND - 40000, 1000, NoLoss), FecPath(CWND, 1000, FALSE) >>,
               1, p, Enc(40, Some(1))) : p \in Pending }

Views(a) ==
    CASE a = "NoRedundancy" -> BurstsViews
      [] a = "BackgroundOnly" -> BackgroundViews
      [] a = "BurstsOnly" -> BurstsViews
      [] a = "BurstsOnlyOnFECOnlyPath" -> BurstsFecOnlyViews
      [] a = "CooldownOnFECOnlyPath" -> CooldownViews

EnvDefault ==
    [ FEC_BACKGROUND_DELAYING_DURATION_US |-> None,
      FEC_BURST_SIZE_BYTES |-> None,
      FEC_MAX_JITTER_US |-> None,
      FEC_COOLDOWN_US |-> None,
      FRAC_DENOMINATOR_TO_PROTECT |-> None,
      MINIMUM_ROOM_IN_CWIN |-> None,
      BANDWIDTH_PROBING_BPS |-> None ]

Envs(a) ==
    CASE a = "NoRedundancy" -> { EnvDefault }
      [] a = "BackgroundOnly" ->
            { EnvDefault,
              [ EnvDefault EXCEPT !.FEC_BACKGROUND_DELAYING_DURATION_US = Some(0) ],
              [ EnvDefault EXCEPT !.FEC_BACKGROUND_DELAYING_DURATION_US = Some(1000) ],
              [ EnvDefault EXCEPT !.FEC_BACKGROUND_DELAYING_DURATION_US = Some(-1) ] }
      [] a = "BurstsOnly" ->
            { EnvDefault, [ EnvDefault EXCEPT !.FEC_MAX_JITTER_US = Some(1000) ] }
      [] a = "BurstsOnlyOnFECOnlyPath" ->
            { EnvDefault, [ EnvDefault EXCEPT !.FEC_COOLDOWN_US = Some(1000) ] }
      [] a = "CooldownOnFECOnlyPath" ->
            { EnvDefault, [ EnvDefault EXCEPT !.BANDWIDTH_PROBING_BPS = Some(1000000) ] }

\* the Connection a call borrows: the counters and the view of this call
Conn(counters, v) ==
    [ dgram_max_writable_len |-> v.pending.dgram,
      has_flushable |-> v.pending.flush,
      sent_count |-> counters.sent_count,
      sent_bytes |-> counters.sent_bytes,
      tx_data |-> counters.tx_data,
      paths |-> v.paths,
      fec_encoder |-> v.encoder ]

Clock == { k * TickUs : k \in 0..MaxTicks }

\* the encoder views sent_source_symbol may see at time t
SourceEncoders(t) ==
    { [ first_metadata |-> None, first_sent_time |-> None ] }
    \cup
    { [ first_metadata |-> Some(1), first_sent_time |-> s ] :
        s \in { None } \cup { Some(u) : u \in { c \in Clock : c <= t } } }

\* ------------------------------------------------------------------------
\* State
\* ------------------------------------------------------------------------
VARIABLES
    alg,                \* the FECSchedulerAlgorithm the connection was built with
    env,                \* the DEBUG_QUICHE_* environment variables
    symbol_size,        \* the symbol size of the connection
    now,                \* std::time::Instant::now()
    counters,           \* conn.sent_count, conn.sent_bytes, conn.tx_data
    scheduler,          \* the FECScheduler
    emit_pending,       \* the last decision was true and is not yet reported sent
    repair_outstanding, \* repair symbols emitted and not yet acked or lost
    rounds_opened,      \* history: number of Bursts rounds opened so far
    round_open_rtt,     \* history: rtt of the path whose call opened the round
    round_open_tx_data, \* history: conn.tx_data when the last Bursts round opened
    parses,             \* the from_str calls made so far: name given, result returned
    cc                  \* the Recovery / Congestion state the disabled controller acts on

vars ==
    << alg, env, symbol_size, now, counters, scheduler, emit_pending,
       repair_outstanding, rounds_opened, round_open_rtt, round_open_tx_data,
       parses, cc >>

\* the state of the scheduler and of the connection around it
schedVars ==
    << alg, env, symbol_size, now, counters, scheduler, emit_pending,
       repair_outstanding, rounds_opened, round_open_rtt, round_open_tx_data >>

Init ==
    /\ alg \in Algorithms
    /\ env \in Envs(alg)
    /\ symbol_size \in SymbolSizes
    /\ now = 0
    /\ counters = [ sent_count |-> 0, sent_bytes |-> 0, tx_data |-> 0 ]
    /\ scheduler = NewFecScheduler(alg)
    /\ emit_pending = FALSE
    /\ repair_outstanding = 0
    /\ rounds_opened = 0
    /\ round_open_rtt = None
    /\ round_open_tx_data = None
    /\ parses = << >>
    /\ cc = DisabledCcNew("recovery")

\* line 91 of burst_protecting_fec_scheduler.rs taken: the call opens a round
BurstsOpensRound(self, conn, symbol_size_, env_) ==
    /\ IsNone(BurstsClearFinished(self.state_sending_repair, symbol_size_))
    /\ IsNone(conn.dgram_max_writable_len) /\ ~conn.has_flushable
    /\ BurstsSentEnough(conn.tx_data - self.n_sent_stream_bytes_sent_when_nothing_to_send,
                        EnvParseOr(env_.FEC_BURST_SIZE_BYTES, DEFAULT_BURST_SIZE))

\* ------------------------------------------------------------------------
\* Actions
\* ------------------------------------------------------------------------
\* the clock advances
Tick ==
    /\ now < MaxTicks * TickUs
    /\ now' = now + TickUs
    /\ UNCHANGED << alg, env, symbol_size, counters, scheduler, emit_pending,
                    repair_outstanding, rounds_opened, round_open_rtt >>
    /\ UNCHANGED << round_open_tx_data, parses, cc >>

\* the connection sends a packet carrying stream data
ConnSendPacket ==
    /\ counters.sent_count < MaxPackets
    /\ \E payload \in StreamPayloads :
         counters' = [ sent_count |-> counters.sent_count + 1,
                       sent_bytes |-> counters.sent_bytes + payload + HeaderBytesPerPacket,
                       tx_data |-> counters.tx_data + payload ]
    /\ UNCHANGED << alg, env, symbol_size, now, scheduler, emit_pending,
                    repair_outstanding, rounds_opened, round_open_rtt >>
    /\ UNCHANGED << round_open_tx_data, parses, cc >>

\* the emission loop asks whether the next packet carries a repair symbol
ShouldSendRepair ==
    \E v \in Views(alg) :
        LET conn == Conn(counters, v)
            path == v.paths[v.pid]
            r == FecShouldSendRepair(scheduler, conn, path, symbol_size, now, env)
            opens == scheduler.kind = "Bursty" /\
                     BurstsOpensRound(scheduler.st, conn, symbol_size, env)
        IN  /\ scheduler' = r.self
            /\ emit_pending' = r.ret
            /\ rounds_opened' = IF opens THEN rounds_opened + 1 ELSE rounds_opened
            /\ round_open_rtt' =
                 IF opens THEN Some(path.rtt)
                 ELSE IF scheduler.kind = "Bursty" /\ IsNone(r.self.st.state_sending_repair)
                      THEN None
                      ELSE round_open_rtt
            /\ round_open_tx_data' =
                 IF opens THEN Some(counters.tx_data) ELSE round_open_tx_data
            /\ UNCHANGED << alg, env, symbol_size, now, counters, repair_outstanding >>
            /\ UNCHANGED << parses, cc >>

\* the emission loop reports the repair symbol it sent after a true decision
SentRepairSymbol ==
    /\ emit_pending
    /\ repair_outstanding < MaxRepairInFlight
    /\ scheduler' = FecSentRepairSymbol(scheduler)
    /\ emit_pending' = FALSE
    /\ repair_outstanding' = repair_outstanding + 1
    /\ UNCHANGED << alg, env, symbol_size, now, counters,
                    rounds_opened, round_open_rtt >>
    /\ UNCHANGED << round_open_tx_data, parses, cc >>

\* a repair symbol in flight is acknowledged
AckedRepairSymbol ==
    /\ repair_outstanding > 0
    /\ scheduler' = FecAckedRepairSymbol(scheduler)
    /\ repair_outstanding' = repair_outstanding - 1
    /\ UNCHANGED << alg, env, symbol_size, now, counters, emit_pending,
                    rounds_opened, round_open_rtt >>
    /\ UNCHANGED << round_open_tx_data, parses, cc >>

\* a repair symbol in flight is declared lost
LostRepairSymbol ==
    /\ repair_outstanding > 0
    /\ scheduler' = FecLostRepairSymbol(scheduler)
    /\ repair_outstanding' = repair_outstanding - 1
    /\ UNCHANGED << alg, env, symbol_size, now, counters, emit_pending,
                    rounds_opened, round_open_rtt >>
    /\ UNCHANGED << round_open_tx_data, parses, cc >>

\* the emission loop reports a source symbol it sent
SentSourceSymbol ==
    /\ scheduler.kind = "Bursty" =>
         scheduler.st.n_source_symbols_sent_since_last_repair < MaxSourceSymbols
    /\ \E encoder \in SourceEncoders(now) :
         scheduler' = FecSentSourceSymbol(scheduler, encoder, now, env)
    /\ UNCHANGED << alg, env, symbol_size, now, counters, emit_pending,
                    repair_outstanding, rounds_opened, round_open_rtt >>
    /\ UNCHANGED << round_open_tx_data, parses, cc >>

Next ==
    \/ Tick
    \/ ConnSendPacket
    \/ ShouldSendRepair
    \/ SentRepairSymbol
    \/ AckedRepairSymbol
    \/ LostRepairSymbol
    \/ SentSourceSymbol

Spec == Init /\ [][Next]_vars

\* a connection built with one given algorithm
InitBursts == Init /\ alg = "BurstsOnly"

SpecBursts == InitBursts /\ [][Next]_vars

InitBackground == Init /\ alg = "BackgroundOnly"

SpecBackground == InitBackground /\ [][Next]_vars

InitBurstsFecOnly == Init /\ alg = "BurstsOnlyOnFECOnlyPath"

SpecBurstsFecOnly == InitBurstsFecOnly /\ [][Next]_vars

InitCooldown == Init /\ alg = "CooldownOnFECOnlyPath"

SpecCooldown == InitCooldown /\ [][Next]_vars

\* ------------------------------------------------------------------------
\* Algorithm-name parsing
\* ------------------------------------------------------------------------
InitFromStr == Init /\ alg = "NoRedundancy"

\* a caller parses an algorithm name
FromStrCall ==
    /\ Len(parses) < MaxParses
    /\ \E name \in Names :
         parses' = Append(parses, [ name |-> name, result |-> FromStr(name) ])
    /\ UNCHANGED schedVars
    /\ UNCHANGED cc

NextFromStr == FromStrCall

SpecFromStr == InitFromStr /\ [][NextFromStr]_vars

\* ------------------------------------------------------------------------
\* The disabled congestion controller
\* ------------------------------------------------------------------------
InitDisabledCc ==
    /\ alg = "NoRedundancy"
    /\ env = EnvDefault
    /\ symbol_size \in SymbolSizes
    /\ now = 0
    /\ counters = [ sent_count |-> 0, sent_bytes |-> 0, tx_data |-> 0 ]
    /\ scheduler = NewFecScheduler(alg)
    /\ emit_pending = FALSE
    /\ repair_outstanding = 0
    /\ rounds_opened = 0
    /\ round_open_rtt = None
    /\ round_open_tx_data = None
    /\ parses = << >>
    /\ cc \in { DisabledCcNew(impl) : impl \in CcImpls }

\* a packet is sent
CcOnPacketSent ==
    /\ cc.n_sent < MaxCcPackets
    /\ LET r == IF cc.impl = "recovery"
                THEN DisabledCcOnPacketSent(cc, 1200)
                ELSE CongestionDisabledCcOnPacketSent(cc, 1200)
       IN  cc' = [ r EXCEPT !.n_sent = @ + 1, !.last_op = "on_packet_sent" ]
    /\ UNCHANGED schedVars
    /\ UNCHANGED parses

\* an ACK frame newly acknowledges one or two packets
CcOnPacketsAcked ==
    /\ \E packets \in AckBatches :
         /\ cc.n_acked + Len(packets) <= cc.n_sent
         /\ LET r == IF cc.impl = "recovery"
                     THEN DisabledCcOnPacketsAcked(cc, packets)
                     ELSE CongestionDisabledCcOnPacketsAcked(cc, packets)
            IN  cc' = [ r EXCEPT !.n_acked = @ + Len(packets),
                                 !.last_op = "on_packets_acked" ]
    /\ UNCHANGED schedVars
    /\ UNCHANGED parses

\* a loss is detected
CcCongestionEvent ==
    /\ LET r == IF cc.impl = "recovery"
                THEN DisabledCcCongestionEvent(cc)
                ELSE CongestionDisabledCcCongestionEvent(cc)
       IN  cc' = [ r EXCEPT !.last_op = "congestion_event" ]
    /\ UNCHANGED schedVars
    /\ UNCHANGED parses

\* persistent congestion is declared (the Recovery controller only)
CcCollapseCwnd ==
    /\ cc.impl = "recovery"
    /\ cc' = [ DisabledCcCollapseCwnd(cc) EXCEPT !.last_op = "collapse_cwnd" ]
    /\ UNCHANGED schedVars
    /\ UNCHANGED parses

\* Recovery updates app_limited as the application fills the window or not
CcUpdateAppLimited ==
    /\ \E v \in BOOLEAN :
         /\ v # cc.app_limited
         /\ cc' = [ cc EXCEPT !.app_limited = v, !.last_op = "update_app_limited" ]
    /\ UNCHANGED schedVars
    /\ UNCHANGED parses

NextDisabledCc ==
    \/ CcOnPacketSent
    \/ CcOnPacketsAcked
    \/ CcCongestionEvent
    \/ CcCollapseCwnd
    \/ CcUpdateAppLimited

SpecDisabledCc == InitDisabledCc /\ [][NextDisabledCc]_vars

\* ------------------------------------------------------------------------
\* Vocabulary of the properties
\* ------------------------------------------------------------------------
\* the should_send_repair call with view v, made in the current state
Call(v) ==
    FecShouldSendRepair(scheduler, Conn(counters, v), v.paths[v.pid], symbol_size, now, env)

\* the call with view v repeated at once on the state r1 the first call left:
\* same clock, same inputs, no event in between
Again(r1, v) ==
    FecShouldSendRepair(r1.self, Conn(counters, v), v.paths[v.pid], symbol_size, now, env)

HasPending(v) == IsSome(v.pending.dgram) \/ v.pending.flush

IsBursts == scheduler.kind = "Bursty"

IsBackground == scheduler.kind = "BackgroundOnly"

IsActive == scheduler.kind # "NoRedundancy"

Round == Unwrap(scheduler.st.state_sending_repair)

HasRound == IsBursts /\ IsSome(scheduler.st.state_sending_repair)

NRepairInFlight(sched) == sched.st.n_repair_in_flight


\* ------------------------------------------------------------------------
\* Properties
\* ------------------------------------------------------------------------
\* C1: in every reachable state of the Bursts variant, a should_send_repair
\* call made while a stream is flushable or a datagram is writable returns
\* false.
C1_BurstsDeclinesWhileDataPending ==
    IsBursts => \A v \in Views(alg) : HasPending(v) => ~Call(v).ret

\* C2: in every reachable state of the Background variant, a
\* should_send_repair call made while a stream is flushable or a datagram is
\* writable returns false and leaves no triggering time latched:
\* rs_triggering_time is None and timeout() is None after the call.
C2_BackgroundDeclinesWhileDataPending ==
    IsBackground =>
        \A v \in Views(alg) :
            HasPending(v) =>
                LET r == Call(v)
                IN  /\ ~r.ret
                    /\ IsNone(r.self.st.rs_triggering_time)
                    /\ IsNone(BackgroundTimeout(r.self.st))

\* C2 witness: a triggering time is latched and timeout() is armed, so a call
\* with data pending has a latch to clear.
C2_Witness ==
    /\ IsBackground
    /\ IsSome(scheduler.st.rs_triggering_time)
    /\ IsSome(BackgroundTimeout(scheduler.st))
    /\ \E v \in Views(alg) : HasPending(v)

\* C3: in every active variant, after any legal event sequence,
\* n_repair_in_flight equals the number of repair symbols reported sent and
\* not yet reported acked or lost, and is never negative; an ack and a loss
\* both decrement it by one, and an emit followed by an ack or a loss leaves
\* it as it was.  The invariant holds across should_send_repair and
\* sent_source_symbol steps, which leave repair_outstanding alone, so these
\* never change the count.
C3_RepairInFlightAccounting ==
    IsActive =>
        /\ NRepairInFlight(scheduler) = repair_outstanding
        /\ NRepairInFlight(scheduler) >= 0
        /\ NRepairInFlight(FecAckedRepairSymbol(FecSentRepairSymbol(scheduler))) =
               NRepairInFlight(scheduler)
        /\ NRepairInFlight(FecLostRepairSymbol(FecSentRepairSymbol(scheduler))) =
               NRepairInFlight(scheduler)
        /\ repair_outstanding > 0 =>
               /\ NRepairInFlight(FecAckedRepairSymbol(scheduler)) =
                      NRepairInFlight(scheduler) - 1
               /\ FecLostRepairSymbol(scheduler) = FecAckedRepairSymbol(scheduler)

\* C3 witness: a Bursts round has emitted two repair symbols, one of which
\* has been acked or lost and one of which is still in flight.
C3_Witness ==
    /\ HasRound
    /\ Round.repair_symbols_sent = 2
    /\ NRepairInFlight(scheduler) = 1
    /\ repair_outstanding = 1

\* C4: for Bursts, every should_send_repair call that finds a round present
\* on entry finds repair_symbols_sent * symbol_size <= repair_bytes_to_send.
C4_SentWithinCeiling ==
    HasRound => Round.repair_symbols_sent * symbol_size <= Round.repair_bytes_to_send

\* C4 amended: for Bursts, every should_send_repair call that finds a round
\* present on entry finds the ceiling overshot by less than one symbol:
\* repair_symbols_sent * symbol_size < repair_bytes_to_send + symbol_size.
C4_SentWithinCeilingPlusOneSymbol ==
    HasRound =>
        Round.repair_symbols_sent * symbol_size < Round.repair_bytes_to_send + symbol_size

\* C4 witness: a round whose last symbol went over the ceiling.
C4_Witness ==
    /\ HasRound
    /\ Round.repair_symbols_sent >= 1
    /\ Round.repair_symbols_sent * symbol_size > Round.repair_bytes_to_send

\* the rtt a round present after the call with view v was opened with
OpeningRtt(v) ==
    IF BurstsOpensRound(scheduler.st, Conn(counters, v), symbol_size, env)
    THEN v.paths[v.pid].rtt
    ELSE Unwrap(round_open_rtt)

RoundOf(r) == Unwrap(r.self.st.state_sending_repair)

HasRoundIn(r) == IsSome(r.self.st.state_sending_repair)

\* a round is present on entry and its ceiling is not reached
HasUnfinishedRound ==
    IsBursts /\ IsSome(BurstsClearFinished(scheduler.st.state_sending_repair, symbol_size))

\* C5: for Bursts, immediately after any should_send_repair call at time
\* now, a round that still exists satisfies now - start_time <= rtt of the
\* path that opened it.
C5_RoundWithinOpeningRtt ==
    IsBursts =>
        \A v \in Views(alg) :
            LET r == Call(v)
            IN  HasRoundIn(r) => now - RoundOf(r).start_time <= OpeningRtt(v)

\* C5 amended: for Bursts, immediately after any should_send_repair call at
\* time now, a round that still exists satisfies now - start_time <= the rtt
\* read in that call from the path the call is made on, no call returns true
\* for a round older than that, and a call that finds an unfinished round
\* with now - start_time >= that rtt clears the round and returns false.
C5_RoundWithinCallRtt ==
    IsBursts =>
        \A v \in Views(alg) :
            LET r == Call(v)
                rtt == v.paths[v.pid].rtt
            IN  /\ HasRoundIn(r) => now - RoundOf(r).start_time <= rtt
                /\ r.ret => HasRoundIn(r)
                /\ (HasUnfinishedRound /\ now - Round.start_time >= rtt) =>
                       ~HasRoundIn(r) /\ ~r.ret

\* C5 witness: a call made on a path with a larger rtt keeps, and emits
\* for, a round older than the rtt of the path that opened it, and a call
\* made on another path expires the same round.
C5_Witness ==
    /\ HasUnfinishedRound
    /\ \E v \in Views(alg) :
         LET r == Call(v)
         IN  r.ret /\ now - RoundOf(r).start_time > Unwrap(round_open_rtt)
    /\ \E v \in Views(alg) :
         /\ now - Round.start_time >= v.paths[v.pid].rtt
         /\ ~HasRoundIn(Call(v))

\* C6: for Bursts, repair_bytes_to_send of a round never decreases while that
\* same round stays open, whatever happens in between.
C6_CeilingNeverDecreases ==
    [][ (HasRound /\ HasRound' /\ rounds_opened' = rounds_opened) =>
            Round'.repair_bytes_to_send >= Round.repair_bytes_to_send ]_vars

\* C6 witness: a round still below its ceiling after sent_repair_symbol reset
\* n_source_symbols_sent_since_last_repair, so that the next candidate is 0.
C6_Witness ==
    /\ HasRound
    /\ Round.repair_symbols_sent >= 1
    /\ Round.repair_symbols_sent * symbol_size < Round.repair_bytes_to_send
    /\ scheduler.st.n_source_symbols_sent_since_last_repair = 0

\* the variants C7 is about
IsBackgroundBurstsOrCooldown ==
    scheduler.kind \in { "BackgroundOnly", "Bursty", "CooldownOnFECOnly" }

\* C7: for Background, Bursts and CooldownOnFECOnly, two consecutive
\* should_send_repair calls with the same clock value and identical inputs,
\* with no event callback in between, never return false on the first call
\* and true on the second.
C7_NoFalseThenTrue ==
    IsBackgroundBurstsOrCooldown =>
        \A v \in Views(alg) :
            LET r1 == Call(v) IN ~r1.ret => ~Again(r1, v).ret

\* C7 witness: a Bursts round is open and some first call returns false
\* while changing the scheduler state (it clears or expires the round), so
\* that the second call starts from another state than the first.
C7_Witness ==
    /\ HasRound
    /\ \E v \in Views(alg) :
         LET r1 == Call(v)
         IN  /\ ~r1.ret
             /\ IsNone(r1.self.st.state_sending_repair)
             /\ ~Again(r1, v).ret

\* C8: for BurstsOnFECOnly on a fec_only path, two consecutive
\* should_send_repair calls with the same clock value and identical inputs,
\* with no event callback in between, never return false on the first call
\* and true on the second.
C8_FecOnlyNoFalseThenTrue ==
    scheduler.kind = "BurstyOnFECOnly" =>
        \A v \in Views(alg) :
            LET r1 == Call(v)
            IN  (v.paths[v.pid].fec_only /\ ~r1.ret) => ~Again(r1, v).ret

\* C9: for Bursts, a second should_send_repair call with unchanged inputs and
\* the same now, with no event in between, returns the same decision as the
\* first and leaves timeout() as it was after the first.
C9_BurstsIdempotent ==
    IsBursts =>
        \A v \in Views(alg) :
            LET r1 == Call(v)
                r2 == Again(r1, v)
            IN  /\ r2.ret = r1.ret
                /\ BurstsTimeout(r2.self.st) = BurstsTimeout(r1.self.st)

\* the event methods of the dispatcher act as those of the variant it holds
ForwardsEvents ==
    LET st == scheduler.st
        Held(x) == [ scheduler EXCEPT !.st = x ]
    IN  CASE scheduler.kind = "BackgroundOnly" ->
               /\ FecSentRepairSymbol(scheduler) = Held(BackgroundSentRepairSymbol(st))
               /\ FecAckedRepairSymbol(scheduler) = Held(BackgroundAckedRepairSymbol(st))
               /\ FecLostRepairSymbol(scheduler) = Held(BackgroundLostRepairSymbol(st))
          [] scheduler.kind = "Bursty" ->
               /\ FecSentRepairSymbol(scheduler) = Held(BurstsSentRepairSymbol(st))
               /\ FecAckedRepairSymbol(scheduler) = Held(BurstsAckedRepairSymbol(st))
               /\ FecLostRepairSymbol(scheduler) = Held(BurstsLostRepairSymbol(st))
          [] scheduler.kind = "BurstyOnFECOnly" ->
               /\ FecSentRepairSymbol(scheduler) = Held(BurstsFecOnlySentRepairSymbol(st))
               /\ FecAckedRepairSymbol(scheduler) = Held(BurstsFecOnlyAckedRepairSymbol(st))
               /\ FecLostRepairSymbol(scheduler) = Held(BurstsFecOnlyLostRepairSymbol(st))
          [] scheduler.kind = "CooldownOnFECOnly" ->
               /\ FecSentRepairSymbol(scheduler) = Held(CooldownSentRepairSymbol(st))
               /\ FecAckedRepairSymbol(scheduler) = Held(CooldownAckedRepairSymbol(st))
               /\ FecLostRepairSymbol(scheduler) = Held(CooldownLostRepairSymbol(st))

KindOf(a) ==
    CASE a = "NoRedundancy" -> "NoRedundancy"
      [] a = "BackgroundOnly" -> "BackgroundOnly"
      [] a = "BurstsOnly" -> "Bursty"
      [] a = "BurstsOnlyOnFECOnlyPath" -> "BurstyOnFECOnly"
      [] a = "CooldownOnFECOnlyPath" -> "CooldownOnFECOnly"

\* C10: a scheduler built for NoRedundancy returns false from
\* should_send_repair for every input and every event history and its
\* sent_repair_symbol, acked_repair_symbol, lost_repair_symbol and
\* sent_source_symbol change nothing; every other scheduler stays the variant
\* it was built as, its state stays a state of that variant's state machine,
\* and its event methods act as that variant's.
C10_NoRedundancyDeclinesOthersForward ==
    /\ scheduler.kind = KindOf(alg)
    /\ ~IsActive =>
         /\ scheduler = NewFecScheduler("NoRedundancy")
         /\ ~emit_pending
         /\ \A v \in Views(alg) : Call(v) = [ self |-> scheduler, ret |-> FALSE ]
         /\ FecSentRepairSymbol(scheduler) = scheduler
         /\ FecAckedRepairSymbol(scheduler) = scheduler
         /\ FecLostRepairSymbol(scheduler) = scheduler
         /\ \A e \in SourceEncoders(now) :
              FecSentSourceSymbol(scheduler, e, now, env) = scheduler
    /\ IsActive =>
         /\ DOMAIN scheduler.st = DOMAIN NewFecScheduler(alg).st
         /\ ForwardsEvents

\* C10 witness: a NoRedundancy connection that has sent a burst larger than
\* the threshold, at the end of the clock, after calls with nothing to send.
C10_Witness ==
    /\ ~IsActive
    /\ counters.tx_data > DEFAULT_BURST_SIZE
    /\ now = MaxTicks * TickUs
    /\ \E v \in Views(alg) : ~HasPending(v) /\ ~Call(v).ret

\* the stream bytes sent since the last idle point, as a Bursts call made now
\* computes them (line 68)
BurstsCurrentBurst == counters.tx_data - scheduler.st.n_sent_stream_bytes_sent_when_nothing_to_send

BurstsThreshold == EnvParseOr(env.FEC_BURST_SIZE_BYTES, DEFAULT_BURST_SIZE)

BurstsJitter == EnvParseOr(env.FEC_MAX_JITTER_US, DEFAULT_MAX_JITTER_US)

\* the ceiling a Bursts call with view v computes for a round it opens
BurstsCeilingOf(v) ==
    BurstsMaxRepairData(scheduler.st, v.paths[v.pid], symbol_size,
                        EnvParseOr(env.FRAC_DENOMINATOR_TO_PROTECT,
                                   DEFAULT_FRAC_DENOMINATOR_TO_PROTECT))

\* C13: for Bursts with no round open and max_jitter = 0, an idle query made
\* when the stream bytes sent since the last idle point are at most
\* threshold_burst_size opens no round and returns false, and an idle query
\* made when they exceed the threshold opens a round and returns true on that
\* same call.
C13_IdleQueryAtThreshold ==
    (IsBursts /\ ~HasRound /\ BurstsJitter = 0) =>
        \A v \in Views(alg) :
            ~HasPending(v) =>
                LET r == Call(v)
                IN  IF BurstsCurrentBurst <= BurstsThreshold
                    THEN ~HasRoundIn(r) /\ ~r.ret
                    ELSE HasRoundIn(r) /\ r.ret

\* C13 amended: for Bursts with no round open and max_jitter = 0, an idle
\* query made when the stream bytes sent since the last idle point are at
\* most threshold_burst_size opens no round and returns false; one made when
\* they exceed the threshold opens a round starting now, and returns true on
\* that same call exactly when the ceiling computed for the round is
\* positive (some source symbol was sent since the last repair and the path
\* has bytes in flight).
C13_IdleQueryOpensAndEmitsIfCeiling ==
    (IsBursts /\ ~HasRound /\ BurstsJitter = 0) =>
        \A v \in Views(alg) :
            ~HasPending(v) =>
                LET r == Call(v)
                IN  IF BurstsCurrentBurst <= BurstsThreshold
                    THEN ~HasRoundIn(r) /\ ~r.ret
                    ELSE /\ HasRoundIn(r)
                         /\ RoundOf(r).start_time = now
                         /\ RoundOf(r).repair_bytes_to_send = BurstsCeilingOf(v)
                         /\ r.ret <=> BurstsCeilingOf(v) > 0

\* C13 witness: a burst larger than the threshold is waiting, no round is
\* open, and of two idle queries one opens a round and returns true and the
\* other, on a path with nothing in flight, opens a round and returns false.
C13_Witness ==
    /\ IsBursts /\ ~HasRound /\ BurstsJitter = 0
    /\ BurstsCurrentBurst > BurstsThreshold
    /\ \E v \in Views(alg) : ~HasPending(v) /\ Call(v).ret
    /\ \E v \in Views(alg) :
         LET r == Call(v) IN ~HasPending(v) /\ HasRoundIn(r) /\ ~r.ret

\* the call with view v repeated on the state r1 the first call left, at
\* time t, with the same inputs and no event in between
AgainAt(r1, v, t) ==
    FecShouldSendRepair(r1.self, Conn(counters, v), v.paths[v.pid], symbol_size, t, env)

\* C14: for Bursts with max_jitter J > 0, the should_send_repair call at time
\* t that opens a round returns false, timeout() then returns t + J, and a
\* should_send_repair call at time t + J with unchanged connection inputs and
\* no event in between returns true.
C14_JitterDelaysThenEmits ==
    (IsBursts /\ BurstsJitter > 0) =>
        \A v \in Views(alg) :
            BurstsOpensRound(scheduler.st, Conn(counters, v), symbol_size, env) =>
                LET r1 == Call(v)
                IN  /\ ~r1.ret
                    /\ BurstsTimeout(r1.self.st) = Some(now + BurstsJitter)
                    /\ AgainAt(r1, v, now + BurstsJitter).ret

\* C15: Bursts protects each finished burst with at most one sending round:
\* once a round has been opened, a later call opens another round only if
\* conn.tx_data has grown by more than threshold_burst_size since the call
\* that opened the previous one.
C15_OneRoundPerBurst ==
    (IsBursts /\ IsSome(round_open_tx_data)) =>
        \A v \in Views(alg) :
            BurstsOpensRound(scheduler.st, Conn(counters, v), symbol_size, env) =>
                counters.tx_data - Unwrap(round_open_tx_data) > BurstsThreshold

\* C15 witness: a round was opened for the burst and is gone, finished or
\* expired, the burst is larger than the threshold, and no idle query opens
\* a second round for it.
C15_Witness ==
    /\ IsBursts /\ rounds_opened = 1 /\ ~HasRound
    /\ counters.tx_data > BurstsThreshold
    /\ \E v \in Views(alg) : ~HasPending(v)
    /\ \A v \in Views(alg) : ~HasRoundIn(Call(v))

IsCooldown == scheduler.kind = "CooldownOnFECOnly"

\* the condition of the probing branch for a call with view v: the path is
\* app_limited and 8 * total_bif / rtt_seconds is below bandwidth_probing_bps
ProbingApplies(v) ==
    /\ v.paths[v.pid].app_limited
    /\ 8 * TotalBif(Conn(counters, v)) * (MicrosPerSecond \div v.paths[v.pid].rtt) <
           EnvParseOr(env.BANDWIDTH_PROBING_BPS, DEFAULT_BANDWIDTH_PROBING_BPS)

\* C16: for CooldownOnFECOnly on a fec_only path, whenever the path is
\* app_limited and 8 * total_bif / rtt_seconds is below
\* bandwidth_probing_bps, should_send_repair returns true, whatever the burst
\* size, the pending data, the room in the congestion window, the cooldown,
\* n_repair_in_flight and the round state.
C16_ProbingAlwaysEmits ==
    IsCooldown =>
        \A v \in Views(alg) :
            (v.paths[v.pid].fec_only /\ ProbingApplies(v)) => Call(v).ret

\* C16 witness: a repair symbol is in flight, the cooldown has not elapsed,
\* and a call with data pending, no burst and no room in the window of the
\* fec_only path returns true because the probing condition holds.
C16_Witness ==
    /\ IsCooldown
    /\ scheduler.st.n_repair_in_flight > 0
    /\ scheduler.st.first_source_symbol_in_burst_sent_time = Some(now)
    /\ \E v \in Views(alg) :
         /\ v.paths[v.pid].fec_only /\ ProbingApplies(v)
         /\ HasPending(v)
         /\ v.encoder.n_protected_symbols = 0
         /\ v.paths[v.pid].cwnd_available <= DEFAULT_MINIMUM_ROOM_IN_CWIN
         /\ Call(v).ret

IsBurstsFecOnly == scheduler.kind = "BurstyOnFECOnly"

\* C18: for BurstsOnFECOnly on a fec_only path, a should_send_repair call
\* made while a stream or a datagram is pending returns false and opens no
\* round.
C18_FecOnlyDeclinesWhileDataPending ==
    IsBurstsFecOnly =>
        \A v \in Views(alg) :
            (v.paths[v.pid].fec_only /\ HasPending(v)) =>
                LET r == Call(v)
                IN  /\ ~r.ret
                    /\ IsNone(scheduler.st.state_sending_repair) => ~HasRoundIn(r)

\* C19: for CooldownOnFECOnly on a fec_only path, while
\* fec_encoder.first_metadata() keeps the same value at most one
\* should_send_repair call returns true, and outside the probing branch a
\* call returns true only when a round is armed for the current epoch.
C19_OneDecisionPerEpoch ==
    IsCooldown =>
        \A v \in Views(alg) :
            v.paths[v.pid].fec_only =>
                LET r1 == Call(v)
                IN  /\ r1.ret => ~Again(r1, v).ret
                    /\ (r1.ret /\ ~ProbingApplies(v)) =>
                           /\ HasRoundIn(r1)
                           /\ RoundOf(r1).first_protected_metadata_for_epoch =
                                  v.encoder.first_metadata

\* the protection budget the decision of the call with view v and result r
\* was taken against: max_repair_data of the call for Background and
\* CooldownOnFECOnly, the ceiling of the round for the two Bursts variants
BudgetOf(v, r) ==
    CASE scheduler.kind = "BackgroundOnly" ->
            BackgroundMaxRepairData(Conn(counters, v), v.paths[v.pid], symbol_size)
      [] scheduler.kind = "Bursty" -> RoundOf(r).repair_bytes_to_send
      [] scheduler.kind = "BurstyOnFECOnly" -> RoundOf(r).max_sending_repair_bytes
      [] scheduler.kind = "CooldownOnFECOnly" -> CooldownMaxRepairData(Conn(counters, v), env)

\* a call with view v takes the probing branch of CooldownOnFECOnly
Probes(v) == IsCooldown /\ v.paths[v.pid].fec_only /\ ProbingApplies(v)

\* C20: every active variant emits only while the unacknowledged repair is
\* below the budget: for Background, Bursts, BurstsOnFECOnly, and
\* CooldownOnFECOnly outside its probing branch, should_send_repair returns
\* true only if n_repair_in_flight * symbol_size < max_repair_data.
C20_EmitsOnlyBelowBudget ==
    IsActive =>
        \A v \in Views(alg) :
            LET r == Call(v)
            IN  (r.ret /\ ~Probes(v)) =>
                    scheduler.st.n_repair_in_flight * symbol_size < BudgetOf(v, r)

\* C20, amended: the same for Background, BurstsOnFECOnly and
\* CooldownOnFECOnly outside its probing branch; Bursts returns true only if
\* the repair symbols sent in the present round, repair_symbols_sent *
\* symbol_size, are below the ceiling of the round, whatever
\* n_repair_in_flight is.
C20_EmitsOnlyBelowBudgetOrRoundCeiling ==
    IsActive =>
        \A v \in Views(alg) :
            LET r == Call(v)
            IN  (r.ret /\ ~Probes(v)) =>
                    IF IsBursts
                    THEN RoundOf(r).repair_symbols_sent * symbol_size < BudgetOf(v, r)
                    ELSE scheduler.st.n_repair_in_flight * symbol_size < BudgetOf(v, r)

\* C20 witness: a Bursts call returns true while the repair symbols in
\* flight, some of them sent before the present round, have reached the
\* ceiling of the round.
C20_Witness ==
    /\ IsBursts
    /\ \E v \in Views(alg) :
         LET r == Call(v)
         IN  /\ r.ret
             /\ scheduler.st.n_repair_in_flight > RoundOf(r).repair_symbols_sent
             /\ scheduler.st.n_repair_in_flight * symbol_size >= BudgetOf(v, r)

\* the base quantity B the budget of a call with view v is sized from:
\* min(n_protected_symbols * symbol_size, total_bif) for Background,
\* min(bif, n_source_symbols_sent_since_last_repair * symbol_size) for Bursts,
\* min(total_bif, sent_bytes - n_sent_bytes_when_last_repair) for
\* BurstsOnFECOnly and total_bif for CooldownOnFECOnly
BaseQuantity(v) ==
    CASE scheduler.kind = "BackgroundOnly" ->
            Min(v.encoder.n_protected_symbols * symbol_size, TotalBif(Conn(counters, v)))
      [] scheduler.kind = "Bursty" ->
            Min(SaturatingSub(v.paths[v.pid].cwnd, v.paths[v.pid].cwnd_available),
                scheduler.st.n_source_symbols_sent_since_last_repair * symbol_size)
      [] scheduler.kind = "BurstyOnFECOnly" ->
            Min(TotalBif(Conn(counters, v)),
                counters.sent_bytes - scheduler.st.n_sent_bytes_when_last_repair)
      [] scheduler.kind = "CooldownOnFECOnly" -> TotalBif(Conn(counters, v))

\* C21: in every active variant, when the base quantity B of the call is
\* smaller than symbol_size the budget is 0 and should_send_repair returns
\* false, outside the probing branch of CooldownOnFECOnly.
C21_SmallBaseQuantityDeclines ==
    IsActive =>
        \A v \in Views(alg) :
            (BaseQuantity(v) < symbol_size /\ ~Probes(v)) => ~Call(v).ret

\* C21, amended: only Background zeroes the budget below symbol_size, and it
\* returns false whenever B < symbol_size. The other variants size the budget
\* as B * 3 / 5 there: CooldownOnFECOnly returns false outside its probing
\* branch when that is 0, and a call of Bursts or BurstsOnFECOnly that opens
\* a round returns false when that is 0.
C21_OnlyBackgroundZeroesBelowSymbolSize ==
    IsActive =>
        \A v \in Views(alg) :
            LET r == Call(v)
                zero == (BaseQuantity(v) * 3) \div 5 = 0
            IN  CASE IsBackground -> BaseQuantity(v) < symbol_size => ~r.ret
                  [] IsCooldown -> (zero /\ ~Probes(v)) => ~r.ret
                  [] IsBursts ->
                        (zero /\ BurstsOpensRound(scheduler.st, Conn(counters, v),
                                                  symbol_size, env)) => ~r.ret
                  [] IsBurstsFecOnly ->
                        (zero /\ IsNone(scheduler.st.state_sending_repair) /\ HasRoundIn(r))
                            => ~r.ret

\* C21 witness: Background has waited out its delay, and an idle call whose
\* base quantity is above 0 and below symbol_size returns false.
C21_Witness ==
    /\ IsBackground
    /\ BackgroundWaitedEnough(scheduler.st, now)
    /\ \E v \in Views(alg) :
         /\ ~HasPending(v)
         /\ BaseQuantity(v) > 0 /\ BaseQuantity(v) < symbol_size
         /\ ~Call(v).ret

\* C22: for BurstsOnFECOnly and CooldownOnFECOnly, a should_send_repair
\* call on a path whose fec_only flag is false returns false and leaves every
\* field of the scheduler unchanged.
C22_OtherPathsLeftAlone ==
    (IsBurstsFecOnly \/ IsCooldown) =>
        \A v \in Views(alg) :
            ~v.paths[v.pid].fec_only =>
                LET r == Call(v)
                IN  ~r.ret /\ r.self = scheduler

\* C22 witness: CooldownOnFECOnly holds a round armed for another epoch than
\* the one the encoder now reports, a call on the fec_only path would
\* change the scheduler, and the call on the other path changes nothing.
C22_Witness ==
    /\ IsCooldown
    /\ IsSome(scheduler.st.state_sending_repair)
    /\ \E v \in Views(alg) :
         /\ ~v.paths[v.pid].fec_only
         /\ v.encoder.first_metadata # Round.first_protected_metadata_for_epoch
         /\ Call(v).self = scheduler
    /\ \E v \in Views(alg) : v.paths[v.pid].fec_only /\ Call(v).self # scheduler

\* C23: for Bursts, a should_send_repair call at time now opens a new round
\* if and only if no round is present after clearing a finished one, nothing
\* is pending, current_burst_size > threshold_burst_size, and
\* earliest_unprotected_source_symbol_sent_time is unset or older than
\* max_jitter; no round opens while the recorded source symbol is younger.
C23_OpensIffIdleBurstAndJitterElapsed ==
    IsBursts =>
        \A v \in Views(alg) :
            LET cleared == BurstsClearFinished(scheduler.st.state_sending_repair, symbol_size)
                stamp == scheduler.st.earliest_unprotected_source_symbol_sent_time
                opens == IsNone(cleared) /\ HasRoundIn(Call(v))
            IN  opens <=>
                    /\ IsNone(cleared)
                    /\ ~HasPending(v)
                    /\ counters.tx_data -
                           scheduler.st.n_sent_stream_bytes_sent_when_nothing_to_send
                               > BurstsThreshold
                    /\ (IsNone(stamp) \/ now > Unwrap(stamp) + BurstsJitter)

\* C24: for Bursts, after every should_send_repair call at time now,
\* timeout() returns Some(round.when) if the call returned false and a round
\* exists with now < round.when, and None in every other case, the case of
\* a call that returned true included.
C24_TimeoutAfterEveryCall ==
    IsBursts =>
        \A v \in Views(alg) :
            LET r == Call(v)
            IN  BurstsTimeout(r.self.st) =
                    IF ~r.ret /\ HasRoundIn(r) /\ now < RoundOf(r).when
                    THEN Some(RoundOf(r).when)
                    ELSE None

\* C25: for Bursts, whenever should_send_repair stores an instant into
\* next_timeout, which it does on the calls that return false, that instant
\* lies strictly after the now of the storing call.
C25_StoredTimeoutInFuture ==
    IsBursts =>
        \A v \in Views(alg) :
            LET r == Call(v)
            IN  (~r.ret /\ IsSome(r.self.st.next_timeout)) =>
                    Unwrap(r.self.st.next_timeout) > now

\* C25 witness: no timeout is stored, and a call opens a jittered round,
\* returns false and stores round.when, one jitter after now.
C25_Witness ==
    /\ IsBursts /\ BurstsJitter > 0
    /\ IsNone(scheduler.st.next_timeout)
    /\ \E v \in Views(alg) :
         LET r == Call(v)
         IN  /\ ~r.ret /\ HasRoundIn(r)
             /\ r.self.st.next_timeout = Some(now + BurstsJitter)

\* the ceiling a Bursts call with view v starts from: the ceiling of the
\* round it finds and keeps, 0 for the round it opens
BurstsCeilingBefore(v) ==
    IF BurstsOpensRound(scheduler.st, Conn(counters, v), symbol_size, env)
    THEN 0
    ELSE Round.repair_bytes_to_send

\* bytes_to_protect of a Bursts call with view v
BurstsBytesToProtect(v) ==
    Min(SaturatingSub(v.paths[v.pid].cwnd, v.paths[v.pid].cwnd_available),
        scheduler.st.n_source_symbols_sent_since_last_repair * symbol_size)

\* bytes_to_protect * 3 / 5 below 15000, bytes_to_protect /
\* frac_denominator_to_protect from there
BurstsUnclamped(v) ==
    IF BurstsBytesToProtect(v) < 15000
    THEN (BurstsBytesToProtect(v) * 3) \div 5
    ELSE BurstsBytesToProtect(v) \div
             EnvParseOr(env.FRAC_DENOMINATOR_TO_PROTECT, DEFAULT_FRAC_DENOMINATOR_TO_PROTECT)

HasLossStatistics(v) == IsSome(v.paths[v.pid].packets_lost_per_round_trip)

C29_SentSourceSymbolRearms ==
    IsBursts =>
        \A e \in SourceEncoders(now) :
            LET st == scheduler.st
                after == BurstsSentSourceSymbol(st, e, now, env)
                stamp == st.earliest_unprotected_source_symbol_sent_time
                large == st.current_burst_size > BurstsThreshold
            IN  /\ after.n_source_symbols_sent_since_last_repair =
                       st.n_source_symbols_sent_since_last_repair + 1
                /\ IsNone(stamp) =>
                       after.earliest_unprotected_source_symbol_sent_time =
                           IF large THEN Some(now) ELSE None
                /\ (IsSome(stamp) /\ now > Unwrap(stamp) + BurstsJitter /\ large) =>
                       after.earliest_unprotected_source_symbol_sent_time = Some(now)

C31_EmittedWithinCeilOfCeiling ==
    IsBursts =>
        /\ HasRound =>
               Round.repair_symbols_sent <=
                   (Round.repair_bytes_to_send + symbol_size - 1) \div symbol_size
        /\ emit_pending =>
               /\ HasRound
               /\ Round.repair_symbols_sent * symbol_size < Round.repair_bytes_to_send

\* C31 witness: two repair symbols have been emitted in the round and
\* reported, which is ceil(C / symbol_size) for its ceiling C, not a
\* multiple of symbol_size.
C31_Witness ==
    /\ HasRound
    /\ ~emit_pending
    /\ Round.repair_symbols_sent = 2
    /\ Round.repair_bytes_to_send < 2 * symbol_size
    /\ Round.repair_symbols_sent =
           (Round.repair_bytes_to_send + symbol_size - 1) \div symbol_size

\* the delaying duration a Background call made now works with (lines 35-37)
BackgroundDelay ==
    IF IsSome(env.FEC_BACKGROUND_DELAYING_DURATION_US)
    THEN EnvParseOr(env.FEC_BACKGROUND_DELAYING_DURATION_US, DEFAULT_DELAYING_DURATION)
    ELSE scheduler.st.delaying_duration

\* line 68: the gating condition of a Background call with view v
BackgroundGating(v) ==
    /\ ~HasPending(v)
    /\ scheduler.st.n_repair_in_flight * symbol_size <
           BackgroundMaxRepairData(Conn(counters, v), v.paths[v.pid], symbol_size)

\* what a Background call made now does, given the latch it finds
BackgroundCallsDelayed ==
    (IsBackground /\ BackgroundDelay > 0) =>
        \A v \in Views(alg) :
            LET r == Call(v)
                latch == scheduler.st.rs_triggering_time
                waited == IsSome(latch) /\ now >= Unwrap(latch) + BackgroundDelay
            IN  /\ (BackgroundGating(v) /\ IsNone(latch)) =>
                       ~r.ret /\ r.self.st.rs_triggering_time = Some(now)
                /\ r.ret =>
                       BackgroundGating(v) /\ waited /\ r.self.st.rs_triggering_time = latch
                /\ (BackgroundGating(v) /\ waited) => r.ret

\* a latch does not survive sent_source_symbol nor a call whose gating failed
BackgroundLatchReset ==
    IsBackground =>
        /\ \A e \in SourceEncoders(now) :
             IsNone(FecSentSourceSymbol(scheduler, e, now, env).st.rs_triggering_time)
        /\ \A v \in Views(alg) :
             ~BackgroundGating(v) =>
                 LET r == Call(v) IN ~r.ret /\ IsNone(r.self.st.rs_triggering_time)

\* C26: for Background, timeout() returns rs_triggering_time +
\* delaying_duration exactly when a triggering time is latched and no repair
\* symbol has been reported sent since, and None otherwise: it is None
\* without a latch, one delay after now once a call latches, unchanged by a
\* call that finds the latch and by an ack or a loss, and None after
\* sent_repair_symbol, after sent_source_symbol and after a call whose gating
\* fails.
C26_BackgroundTimeout ==
    IsBackground =>
        LET st == scheduler.st
            latch == st.rs_triggering_time
            timeout == BackgroundTimeout(st)
        IN  /\ IsNone(latch) => IsNone(timeout)
            /\ IsSome(timeout) => timeout = Some(Unwrap(latch) + st.delaying_duration)
            /\ IsNone(BackgroundTimeout(BackgroundSentRepairSymbol(st)))
            /\ IsNone(BackgroundTimeout(BackgroundSentSourceSymbol(st)))
            /\ BackgroundTimeout(BackgroundAckedRepairSymbol(st)) = timeout
            /\ BackgroundTimeout(BackgroundLostRepairSymbol(st)) = timeout
            /\ \A v \in Views(alg) :
                 LET after == BackgroundTimeout(Call(v).self.st)
                 IN  IF ~BackgroundGating(v) THEN IsNone(after)
                     ELSE IF IsNone(latch) THEN after = Some(now + BackgroundDelay)
                     ELSE after = timeout

\* C26 witness: a triggering time is latched, a repair symbol has been
\* reported sent since, and timeout() returns None.
C26_Witness ==
    /\ IsBackground
    /\ IsSome(scheduler.st.rs_triggering_time)
    /\ scheduler.st.rs_sent_for_this_round
    /\ IsNone(BackgroundTimeout(scheduler.st))

\* the gating condition held at the Background call that returned r: the
\* triggering time is latched after it
GatingHeldIn(r) == IsSome(r.self.st.rs_triggering_time)

\* total_bif of a call with view v: the bytes in flight of the paths that
\* are not fec_only
BifOf(v) == TotalBif(Conn(counters, v))

C12_BackgroundDelayedDecision ==
    BackgroundCallsDelayed /\ BackgroundLatchReset

\* C12 witness: with the default delay of 2 ms a latch set at t = 0 is still
\* held at t = 2 ms, and a call made then returns true.
C12_Witness ==
    /\ IsBackground
    /\ BackgroundDelay = DEFAULT_DELAYING_DURATION
    /\ scheduler.st.rs_triggering_time = Some(0)
    /\ now = 2 * TickUs
    /\ \E v \in Views(alg) : Call(v).ret

C17_WindowPinnedAfterAckAndLoss ==
    cc.last_op \in { "on_packets_acked", "congestion_event" } =>
        cc.congestion_window = USIZE_MAX - 1

====
